---- MODULE Spec2Model ----
(***************************************************************************)
(* Model of the resumable batch-embedding engine of 02_vectorize/main.py:  *)
(* process_in_batches, run repeatedly (possibly interrupted) for one       *)
(* provider over one output directory.                                     *)
(*                                                                         *)
(* The output directory is modelled as a map from the three file names the *)
(* function touches to file contents.  Process-local variables are lost on *)
(* a crash; the directory is not.                                          *)
(***************************************************************************)
EXTENDS Integers, Sequences, FiniteSets, TLC

\* ------------------------------------------------------------------ bounds
MaxN == 3        \* largest corpus size
MaxBatch == 2    \* largest batch_size
MaxRuns == 3     \* calls of process_in_batches in one behaviour
MaxRows == 2     \* most rows of a data frame handed to save_metadata
MaxMetaCalls == 3  \* calls of save_metadata in one behaviour
MaxNameLen == 2  \* most characters of a provider name
MaxProblems == 8 \* most rows of the vectorized CSV
MaxOther == 1    \* most of those rows outside the first category or without a vector

VARIABLES
    texts,              \* the corpus handed to every run
    model_type,         \* model_config['type']
    batch_size,         \* batch_size argument
    fs,                 \* output directory: path -> file
    pc,                 \* position of the running call
    processed_vectors,  \* local of process_in_batches
    start_index,        \* local
    texts_to_process,   \* local
    i,                  \* loop variable of the batch loop
    batch_texts,        \* local
    batch_vectors,      \* local
    pbar,               \* tqdm counter (pbar.n)
    result,             \* what the call returned
    runs,               \* calls started so far
    calls,              \* backend calls issued by the current call
    saves,              \* np.save calls completed by the current call
    save_failed,        \* an np.save of the current call raised (and was swallowed)
    final0,             \* the final artifact as it was when the current call began
    tmp0,               \* the partial artifact as it was when the current call began
    failed,             \* which step of the current call failed
    interrupted,        \* an earlier call was killed inside its embedding loop
    checkpointed,       \* vectors the calls so far resumed from or handed to a completed np.save
    streak,             \* calls ended in a row that found the final artifact and nothing to embed
    main_pc,            \* how the invocation of main() ended, "none" before it
    main_force,         \* args.force of that invocation
    metadata,           \* the file metadata.json of the output directory
    meta_pc,            \* position of the running call of save_metadata
    meta_df,            \* df argument of that call
    meta_found,         \* metadata.json as that call found it
    meta_calls,         \* calls of save_metadata started so far
    meta_writes,        \* json.dump calls completed so far
    script_pc,          \* position of the script's __main__ block, "none" before it
    captured,           \* what was printed into the StringIO while main() ran
    console,            \* what was printed to the real stderr
    clipboard,          \* the inputs handed to clip.exe, one per subprocess.run call
    provider_names,     \* the names of two configured providers, <<>> before they are read
    provider_files,     \* the model_filename computed for each of them
    html_pc,            \* position of the report generator (03_html_output), "none" before it
    report_df,          \* df of the report generator: the frame read from the vectorized CSV
    grouped,            \* first result of group_by_middle_category
    category_similarities,  \* second result of group_by_middle_category
    pages               \* per category page, what generate_category_page lists

vars == <<texts, model_type, batch_size, fs, pc, processed_vectors, start_index,
          texts_to_process, i, batch_texts, batch_vectors, pbar, result, runs,
          calls, saves, save_failed, final0, tmp0, failed, interrupted, checkpointed,
          streak, main_pc, main_force, metadata, meta_pc, meta_df, meta_found,
          meta_calls, meta_writes, script_pc, captured, console, clipboard,
          provider_names, provider_files, html_pc, report_df, grouped,
          category_similarities, pages>>

config == <<texts, model_type, batch_size>>
locals == <<processed_vectors, start_index, texts_to_process, i, batch_texts,
            batch_vectors, pbar>>
\* The state outside process_in_batches.
meta == <<metadata, meta_pc, meta_df, meta_found, meta_calls, meta_writes>>
script == <<script_pc, captured, console, clipboard>>
naming == <<provider_names, provider_files>>
report == <<html_pc, report_df, grouped, category_similarities, pages>>
outside == <<main_pc, main_force, meta, script, naming, report>>

\* ------------------------------------------------------------- the backend
\* A deterministic backend: the vector of a text (client.embed / model.encode).
Embed(t) == <<t, 10 + t>>

EmbedAll(ts) == [p \in 1..Len(ts) |-> Embed(ts[p])]

ModelTypes == {"ollama", "sentence-transformers", "other"}

\* ------------------------------------------------------------------- paths
\* A path is the sequence of its name parts; the last part is its suffix.
model_filename == "m"
final_path == <<"vectors_", model_filename, ".npy">>
tmp_path == final_path \o <<".tmp">>

\* np.save(file, arr): "a .npy extension will be appended to the filename if
\* it does not already have one"; np.load and os.rename take the name as is.
NpSaveFile(path) == IF path[Len(path)] = ".npy" THEN path ELSE path \o <<".npy">>

Paths == {final_path, tmp_path, NpSaveFile(tmp_path)}

\* ------------------------------------------------------------------- files
Absent == [exists |-> FALSE, readable |-> FALSE, data |-> <<>>]
Corrupt == [exists |-> TRUE, readable |-> FALSE, data |-> <<>>]
FileOf(vs) == [exists |-> TRUE, readable |-> TRUE, data |-> vs]

\* list(np.load(path)) inside try/except: an unreadable file counts as empty.
LoadVectors(file) == IF file.readable THEN file.data ELSE <<>>

\* lines 71-84: the vectors the call resumes from.
ResumeVectors(dir) ==
    IF dir[tmp_path].exists THEN LoadVectors(dir[tmp_path]) ELSE <<>>

\* A faulty slice that starts one text early: it hands the last checkpointed
\* text to the backend again.
RemainingFromLast(ts, k) == IF k = 0 THEN ts ELSE SubSeq(ts, k, Len(ts))

\* line 86: texts[start_index:]
Remaining(ts, k) == SubSeq(ts, k + 1, Len(ts))

\* A faulty count that rounds down: the last, shorter batch is dropped.
NumBatchesFloor(n, b) == n \div b

\* line 112: math.ceil(len(texts_to_process) / batch_size)
NumBatches(n, b) == (n + b - 1) \div b

\* line 118: texts_to_process[i * batch_size : (i + 1) * batch_size]
Min(a, b) == IF a < b THEN a ELSE b
\* A faulty slice that forgets the loop variable: every batch is the first one.
BatchSliceFirst(ts, k, b) == SubSeq(ts, 1, Min(b, Len(ts)))
BatchSlice(ts, k, b) == SubSeq(ts, k * b + 1, Min((k + 1) * b, Len(ts)))

\* A faulty handler that lacks the empty-corpus branch of lines 160-162.
RenameMissingNoEmptyCase(finalExists, ts) ==
    IF finalExists THEN "true" ELSE "false"
\* A faulty handler that fails although the final artifact exists (lines 157-159).
RenameMissingNoFinalCase(finalExists, ts) ==
    IF finalExists THEN "false"
    ELSE IF ts = <<>> THEN "true"
    ELSE "false"
\* A faulty handler that takes every missing partial artifact for a finished run.
RenameMissingAlwaysSucceeds(finalExists, ts) == "true"
\* lines 155-165: the result when os.rename raises FileNotFoundError.
RenameMissingResult(finalExists, ts) ==
    IF finalExists THEN "true"
    ELSE IF ts = <<>> THEN "true"
    ELSE "false"

\* -------------------------------------------------------------------- Init
\* A corpus of n texts, each text distinct from the others.
Corpora == {[p \in 1..n |-> p] : n \in 0..MaxN}

\* The partial artifact a call may find at tmp_path when it starts (lines
\* 74-84 read whatever is there): none, an unreadable one, or the first k
\* vectors of the corpus.
SeedFiles(ts) ==
    {Absent, Corrupt} \cup {FileOf(SubSeq(EmbedAll(ts), 1, k)) : k \in 0..Len(ts)}

\* ----------------------------------------------------------- metadata.json
\* The data frames handed to save_metadata: rows of a text column and one
\* metadata column.
Categories == {"a", "b"}
DataRows == [text : {"q"}, category : Categories]
DataFrames == UNION {[1..n -> DataRows] : n \in 0..MaxRows}

\* line 178: df[metadata_columns].to_dict(orient='records')
MetadataRecords(df) == [r \in DOMAIN df |-> [category |-> df[r].category]]

MetaAbsent == [exists |-> FALSE, complete |-> FALSE, records |-> <<>>]
\* line 179: open(metadata_path, 'w') has created the file, json.dump has not
\* finished.
MetaPartial == [exists |-> TRUE, complete |-> FALSE, records |-> <<>>]
MetaFileOf(df) == [exists |-> TRUE, complete |-> TRUE, records |-> MetadataRecords(df)]

\* A faulty test that takes the file for missing whatever is there.
MetadataAlwaysMissing(file) == TRUE

\* line 176: not os.path.exists(metadata_path)
MetadataMissing(file) == ~file.exists

Init ==
    /\ texts \in Corpora
    /\ model_type \in ModelTypes
    /\ batch_size \in 1..MaxBatch
    /\ \E seed \in SeedFiles(texts) :
          fs = [p \in Paths |-> IF p = tmp_path THEN seed ELSE Absent]
    /\ pc = "idle"
    /\ processed_vectors = <<>>
    /\ start_index = 0
    /\ texts_to_process = <<>>
    /\ i = 0
    /\ batch_texts = <<>>
    /\ batch_vectors = <<>>
    /\ pbar = 0
    /\ result = "none"
    /\ runs = 0
    /\ calls = <<>>
    /\ saves = 0
    /\ save_failed = FALSE
    /\ final0 = Absent
    /\ tmp0 = Absent
    /\ failed = "none"
    /\ interrupted = FALSE
    /\ checkpointed = 0
    /\ streak = 0
    /\ main_pc = "none"
    /\ main_force = FALSE
    /\ metadata = MetaAbsent
    /\ meta_pc = "idle"
    /\ meta_df = <<>>
    /\ meta_found = MetaAbsent
    /\ meta_calls = 0
    /\ meta_writes = 0
    /\ script_pc = "none"
    /\ captured = <<>>
    /\ console = <<>>
    /\ clipboard = <<>>
    /\ provider_names = <<>>
    /\ provider_files = <<>>
    /\ html_pc = "none"
    /\ report_df = <<>>
    /\ grouped = <<>>
    /\ category_similarities = <<>>
    /\ pages = <<>>

\* ----------------------------------------------------------------- actions
\* The call found the final artifact in place and had nothing left to embed.
NothingToDo == final0.exists /\ texts_to_process = <<>>

\* return: the call ends with the given result.
Return(res, why) ==
    /\ pc' = "done"
    /\ result' = res
    /\ failed' = why
    /\ streak' = IF NothingToDo THEN streak + 1 ELSE 0

\* lines 54-90: entry, resume from the partial artifact, choose the branch.
StartRun ==
    /\ pc \in {"idle", "done"}
    /\ runs < MaxRuns
    /\ runs' = runs + 1
    /\ processed_vectors' = ResumeVectors(fs)
    /\ start_index' = Len(processed_vectors')
    /\ texts_to_process' = Remaining(texts, start_index')
    /\ i' = 0
    /\ batch_texts' = <<>>
    /\ batch_vectors' = <<>>
    /\ pbar' = 0
    /\ result' = "none"
    /\ calls' = <<>>
    /\ saves' = 0
    /\ save_failed' = FALSE
    /\ final0' = fs[final_path]
    /\ tmp0' = fs[tmp_path]
    /\ failed' = "none"
    \* a call that follows a killed one inherits what that one checkpointed
    /\ checkpointed' = IF pc = "idle" /\ runs > 0 THEN checkpointed ELSE start_index'
    /\ interrupted' = (interrupted /\ pc = "idle")
    /\ pc' = IF texts_to_process' = <<>> THEN "rename" ELSE "prepare"
    /\ UNCHANGED <<config, outside, fs, streak>>

\* A faulty preparation that leaves the warm-up call of the remote model out.
PrepareSkipsWarmup ==
    /\ pc = "prepare"
    /\ \E ok \in BOOLEAN :
        CASE model_type = "sentence-transformers" ->
               /\ calls' = Append(calls, [op |-> "load", lo |-> 0, hi |-> 0])
               /\ IF ok
                    THEN /\ pc' = "batch"
                         /\ UNCHANGED <<result, failed, streak>>
                    ELSE Return("raised", "load")
          [] OTHER ->
               /\ ok
               /\ pc' = "batch"
               /\ UNCHANGED <<calls, result, failed, streak>>
    /\ UNCHANGED <<config, outside, fs, locals, runs, saves, save_failed, final0, tmp0,
                   interrupted, checkpointed>>

\* lines 92-114: load the local model, or warm the remote one up.
Prepare ==
    /\ pc = "prepare"
    /\ \E ok \in BOOLEAN :
        CASE model_type = "sentence-transformers" ->
               \* SentenceTransformer(...) is outside every try: it raises through.
               /\ calls' = Append(calls, [op |-> "load", lo |-> 0, hi |-> 0])
               /\ IF ok
                    THEN /\ pc' = "batch"
                         /\ UNCHANGED <<result, failed, streak>>
                    ELSE Return("raised", "load")
          [] model_type = "ollama" ->
               /\ calls' = Append(calls, [op |-> "warmup", lo |-> 0, hi |-> 0])
               /\ IF ok
                    THEN /\ pc' = "batch"
                         /\ UNCHANGED <<result, failed, streak>>
                    ELSE Return("false", "warmup")
          [] OTHER ->
               /\ ok
               /\ pc' = "batch"
               /\ UNCHANGED <<calls, result, failed, streak>>
    /\ UNCHANGED <<config, outside, fs, locals, runs, saves, save_failed, final0, tmp0, interrupted,
                   checkpointed>>

\* lines 117-119: loop test; cut the next batch out of the remaining texts.
BatchHead ==
    /\ pc = "batch"
    /\ IF i < NumBatches(Len(texts_to_process), batch_size)
         THEN /\ batch_texts' = BatchSlice(texts_to_process, i, batch_size)
              /\ batch_vectors' = <<>>
              /\ pc' = "embed"
         ELSE /\ pc' = "rename"
              /\ UNCHANGED <<batch_texts, batch_vectors>>
    /\ UNCHANGED <<config, outside, fs, processed_vectors, start_index, texts_to_process,
                   i, pbar, result, runs, calls, saves, save_failed, final0, tmp0, failed,
                   interrupted, checkpointed, streak>>

\* Corpus position (1-based) of the n-th text of the current batch.
Position(n) == start_index + i * batch_size + n

\* A faulty embed step that leaves the loop with `break` where the code has
\* `return False`: after a failed call the run goes on to its finalize step.
EmbedTextBreaks ==
    /\ pc = "embed"
    /\ model_type = "ollama"
    /\ Len(batch_vectors) < Len(batch_texts)
    /\ LET n == Len(batch_vectors) + 1 IN
       /\ calls' = Append(calls, [op |-> "embed", lo |-> Position(n), hi |-> Position(n)])
       /\ \E ok \in BOOLEAN :
            IF ok
              THEN /\ batch_vectors' = Append(batch_vectors, Embed(batch_texts[n]))
                   /\ pbar' = pbar + 1
                   /\ UNCHANGED <<pc, result, failed, streak>>
              ELSE /\ pc' = "rename"
                   /\ failed' = "embed"
                   /\ UNCHANGED <<batch_vectors, pbar, result, streak>>
    /\ UNCHANGED <<config, outside, fs, processed_vectors, start_index, texts_to_process,
                   i, batch_texts, runs, saves, save_failed, final0, tmp0, interrupted,
                   checkpointed>>

\* A faulty embed step that tries a failed call again (a bounded retry).
EmbedTextRetries ==
    /\ pc = "embed"
    /\ model_type = "ollama"
    /\ Len(batch_vectors) < Len(batch_texts)
    /\ LET n == Len(batch_vectors) + 1 IN
       /\ calls' = Append(calls, [op |-> "embed", lo |-> Position(n), hi |-> Position(n)])
       /\ \E ok \in BOOLEAN :
            IF ok
              THEN /\ batch_vectors' = Append(batch_vectors, Embed(batch_texts[n]))
                   /\ pbar' = pbar + 1
                   /\ UNCHANGED <<pc, result, failed, streak>>
              ELSE IF Len(calls) < 2 * Len(texts)
                     THEN UNCHANGED <<pc, result, failed, streak, batch_vectors, pbar>>
                     ELSE /\ Return("false", "embed")
                          /\ UNCHANGED <<batch_vectors, pbar>>
    /\ UNCHANGED <<config, outside, fs, processed_vectors, start_index, texts_to_process,
                   i, batch_texts, runs, saves, save_failed, final0, tmp0, interrupted,
                   checkpointed>>

\* lines 121-128: one client.embed call for the next text of the batch.
EmbedText ==
    /\ pc = "embed"
    /\ model_type = "ollama"
    /\ Len(batch_vectors) < Len(batch_texts)
    /\ LET n == Len(batch_vectors) + 1 IN
       /\ calls' = Append(calls, [op |-> "embed", lo |-> Position(n), hi |-> Position(n)])
       /\ \E ok \in BOOLEAN :
            IF ok
              THEN /\ batch_vectors' = Append(batch_vectors, Embed(batch_texts[n]))
                   /\ pbar' = pbar + 1
                   /\ UNCHANGED <<pc, result, failed, streak>>
              ELSE /\ Return("false", "embed")
                   /\ UNCHANGED <<batch_vectors, pbar>>
    /\ UNCHANGED <<config, outside, fs, processed_vectors, start_index, texts_to_process,
                   i, batch_texts, runs, saves, save_failed, final0, tmp0, interrupted,
                   checkpointed>>

\* lines 130-131: one model.encode call for the whole batch.
EncodeBatch ==
    /\ pc = "embed"
    /\ model_type = "sentence-transformers"
    /\ Len(batch_vectors) < Len(batch_texts)
    /\ calls' = Append(calls, [op |-> "encode", lo |-> Position(1),
                               hi |-> Position(Len(batch_texts))])
    /\ \E ok \in BOOLEAN :
         IF ok
           THEN /\ batch_vectors' = EmbedAll(batch_texts)
                /\ UNCHANGED <<pc, result, failed, streak>>
           ELSE /\ Return("false", "embed")
                /\ UNCHANGED batch_vectors
    /\ UNCHANGED <<config, outside, fs, processed_vectors, start_index, texts_to_process,
                   i, batch_texts, pbar, runs, saves, save_failed, final0, tmp0, interrupted,
                   checkpointed>>

\* The try block of lines 120-131 has run to its end without raising; for a
\* model type that is neither of the two, it has done nothing.
BatchEmbedded ==
    \/ model_type \notin {"ollama", "sentence-transformers"}
    \/ Len(batch_vectors) = Len(batch_texts)

\* line 138: processed_vectors.extend(batch_vectors)
ExtendVectors ==
    /\ pc = "embed"
    /\ BatchEmbedded
    /\ processed_vectors' = processed_vectors \o batch_vectors
    /\ pc' = "save"
    /\ UNCHANGED <<config, outside, fs, start_index, texts_to_process, i, batch_texts,
                   batch_vectors, pbar, result, runs, calls, saves, save_failed, final0, tmp0,
                   failed, interrupted, checkpointed, streak>>

\* line 142, first half: np.save opens its file for writing, which empties
\* it; if the open fails the exception is swallowed (lines 143-144).
SaveOpen ==
    /\ pc = "save"
    /\ \E ok \in BOOLEAN :
         IF ok
           THEN /\ fs' = [fs EXCEPT ![NpSaveFile(tmp_path)] = Corrupt]
                /\ pc' = "saving"
                /\ UNCHANGED save_failed
           ELSE /\ pc' = "update"
                /\ save_failed' = TRUE
                /\ UNCHANGED fs
    /\ UNCHANGED <<config, outside, locals, result, runs, calls, saves, final0, tmp0,
                   failed, interrupted, checkpointed, streak>>

\* line 142, second half: the array is written out and the file closed; a
\* failed write leaves the file incomplete and is swallowed as well.
SaveWrite ==
    /\ pc = "saving"
    /\ \E ok \in BOOLEAN :
         IF ok
           THEN /\ fs' = [fs EXCEPT ![NpSaveFile(tmp_path)] = FileOf(processed_vectors)]
                /\ saves' = saves + 1
                /\ checkpointed' = Len(processed_vectors)
                /\ UNCHANGED save_failed
           ELSE /\ save_failed' = TRUE
                /\ UNCHANGED <<fs, saves, checkpointed>>
    /\ pc' = "update"
    /\ UNCHANGED <<config, outside, locals, result, runs, calls, final0, tmp0, failed,
                   interrupted, streak>>

\* A faulty progress step that adds the batch size for every provider type,
\* counting the texts of a remote provider twice.
UpdateProgressAlways ==
    /\ pc = "update"
    /\ pbar' = pbar + Len(batch_texts)
    /\ i' = i + 1
    /\ pc' = "batch"
    /\ UNCHANGED <<config, outside, fs, processed_vectors, start_index, texts_to_process,
                   batch_texts, batch_vectors, result, runs, calls, saves, save_failed, final0,
                   tmp0, failed, interrupted, checkpointed, streak>>

\* lines 146-148 and the loop step: the local model reports a whole batch.
UpdateProgress ==
    /\ pc = "update"
    /\ pbar' = IF model_type = "sentence-transformers"
                 THEN pbar + Len(batch_texts) ELSE pbar
    /\ i' = i + 1
    /\ pc' = "batch"
    /\ UNCHANGED <<config, outside, fs, processed_vectors, start_index, texts_to_process,
                   batch_texts, batch_vectors, result, runs, calls, saves, save_failed, final0,
                   tmp0, failed, interrupted, checkpointed, streak>>

\* A faulty finalize step that copies the partial file onto the final name in
\* place: when the copy fails it leaves a partly written final artifact.
RenameInPlace ==
    /\ pc = "rename"
    /\ IF fs[tmp_path].exists
         THEN \E ok \in BOOLEAN :
                IF ok
                  THEN /\ fs' = [fs EXCEPT ![final_path] = fs[tmp_path],
                                           ![tmp_path] = Absent]
                       /\ Return("true", "none")
                  ELSE /\ fs' = [fs EXCEPT ![final_path] = Corrupt]
                       /\ Return("false", "rename")
         ELSE /\ UNCHANGED fs
              /\ LET res == RenameMissingResult(fs[final_path].exists, texts) IN
                 Return(res, IF res = "true" THEN "none" ELSE "missing")
    /\ UNCHANGED <<config, outside, locals, runs, calls, saves, save_failed, final0, tmp0, interrupted,
                   checkpointed>>

\* A faulty finalisation that opens the destination before it looks for the
\* partial artifact, so a move that finds nothing leaves an unreadable final one.
RenameTouchesFinal ==
    /\ pc = "rename"
    /\ IF fs[tmp_path].exists
         THEN \E ok \in BOOLEAN :
                IF ok
                  THEN /\ fs' = [fs EXCEPT ![final_path] = fs[tmp_path],
                                           ![tmp_path] = Absent]
                       /\ Return("true", "none")
                  ELSE /\ UNCHANGED fs
                       /\ Return("false", "rename")
         ELSE LET res == RenameMissingResult(fs[final_path].exists, texts) IN
                /\ fs' = IF res = "true" THEN fs ELSE [fs EXCEPT ![final_path] = Corrupt]
                /\ Return(res, IF res = "true" THEN "none" ELSE "missing")
    /\ UNCHANGED <<config, outside, locals, runs, calls, saves, save_failed, final0, tmp0, interrupted,
                   checkpointed>>

\* lines 150-168: os.rename(tmp_path, final_path) and its handlers.
Rename ==
    /\ pc = "rename"
    /\ IF fs[tmp_path].exists
         THEN \E ok \in BOOLEAN :
                IF ok
                  THEN /\ fs' = [fs EXCEPT ![final_path] = fs[tmp_path],
                                           ![tmp_path] = Absent]
                       /\ Return("true", "none")
                  ELSE \* any other exception of os.rename (lines 166-168)
                       /\ UNCHANGED fs
                       /\ Return("false", "rename")
         ELSE /\ UNCHANGED fs
              /\ LET res == RenameMissingResult(fs[final_path].exists, texts) IN
                 Return(res, IF res = "true" THEN "none" ELSE "missing")
    /\ UNCHANGED <<config, outside, locals, runs, calls, saves, save_failed, final0, tmp0, interrupted,
                   checkpointed>>

\* The positions of a call inside its embedding loop (lines 116-148).
LoopPositions == {"batch", "embed", "save", "saving", "update"}

\* The process is killed (crash, operator abort) while a call is running:
\* its locals are gone, the directory stays as it is.
Crash ==
    /\ pc \notin {"idle", "done"}
    /\ pc' = "idle"
    /\ interrupted' = (interrupted \/ pc \in LoopPositions)
    /\ processed_vectors' = <<>>
    /\ start_index' = 0
    /\ texts_to_process' = <<>>
    /\ i' = 0
    /\ batch_texts' = <<>>
    /\ batch_vectors' = <<>>
    /\ pbar' = 0
    /\ result' = "none"
    /\ calls' = <<>>
    /\ saves' = 0
    /\ save_failed' = FALSE
    /\ failed' = "none"
    /\ streak' = 0
    /\ UNCHANGED <<config, outside, fs, runs, final0, tmp0, checkpointed>>

Next ==
    \/ StartRun
    \/ Prepare
    \/ BatchHead
    \/ EmbedText
    \/ EncodeBatch
    \/ ExtendVectors
    \/ SaveOpen
    \/ SaveWrite
    \/ UpdateProgress
    \/ Rename
    \/ Crash

Spec == Init /\ [][Next]_vars

\* The state of process_in_batches, of main() and of the __main__ block.
engine == <<config, fs, pc, locals, result, runs, calls, saves, save_failed, final0,
            tmp0, failed, interrupted, checkpointed, streak, main_pc, main_force,
            script>>

\* ------------------------------------------------------------------- main()
\* lines 185-187: the script is started (with or without --force) while no
\* call of process_in_batches is under way; the first statement of main()
\* raises, so main() ends there: it parses no argument, reads no file and
\* reaches no provider.
Main ==
    /\ pc \in {"idle", "done"}
    /\ main_pc = "none"
    /\ \E force \in BOOLEAN : main_force' = force
    /\ main_pc' = "raised"
    /\ UNCHANGED <<config, fs, pc, locals, result, runs, calls, saves, save_failed,
                   final0, tmp0, failed, interrupted, checkpointed, streak, meta, naming, report,
                   script>>

\* The program with its entry point: direct calls of process_in_batches, and
\* one start of the script.
NextMain ==
    \/ Next
    \/ Main

SpecMain == Init /\ [][NextMain]_vars

\* ------------------------------------------------------ the __main__ block
\* line 187: the message of the exception main() raises.
MainError == "Forced test error for clipboard functionality"

\* line 281: the line the handler prints about exception e.
ErrorLine(e) == <<"error, copying console output to clipboard", e>>

\* lines 268-275 and 185-187: the script redirects stdout and stderr into a
\* StringIO and calls main(), which raises at its first statement, before it
\* has printed anything.
RunScript ==
    /\ pc \in {"idle", "done"}
    /\ main_pc = "none"
    /\ script_pc = "none"
    /\ \E force \in BOOLEAN : main_force' = force
    /\ main_pc' = "raised"
    /\ captured' = <<>>
    /\ script_pc' = "except"
    /\ UNCHANGED <<config, fs, pc, locals, result, runs, calls, saves, save_failed,
                   final0, tmp0, failed, interrupted, checkpointed, streak, meta, naming, report,
                   console, clipboard>>

\* lines 276-289: the handler restores stdout and stderr, takes the captured
\* text, prints the error line to the restored stderr, hands the captured text
\* to clip.exe (whose failure is caught and reported), and re-raises.
ScriptHandler ==
    /\ script_pc = "except"
    /\ clipboard' = Append(clipboard, captured)
    /\ \E copied \in BOOLEAN :
          console' = console \o <<ErrorLine(MainError)>>
                       \o <<IF copied THEN <<"copied">> ELSE <<"copy failed">>>>
    /\ script_pc' = "raised"
    /\ UNCHANGED <<config, fs, pc, locals, result, runs, calls, saves, save_failed,
                   final0, tmp0, failed, interrupted, checkpointed, streak, meta, naming, report,
                   main_pc, main_force, captured>>

\* The script started from the command line, or main() called directly.
NextScript ==
    \/ Main
    \/ RunScript
    \/ ScriptHandler

SpecScript == Init /\ [][NextScript]_vars

\* ------------------------------------------------ provider names to files
\* Provider names: strings over a letter and the characters the substitution
\* reads or writes.
NameChars == {"a", "/", ".", "_"}
ProviderNames == UNION {[1..n -> NameChars] : n \in 1..MaxNameLen}

\* str.replace(old, new) for a one-character old.
RECURSIVE Replace(_, _, _)
Replace(str, old, new) ==
    IF str = <<>> THEN <<>>
    ELSE (IF Head(str) = old THEN new ELSE <<Head(str)>>) \o Replace(Tail(str), old, new)

\* line 67 (and 224): str(model_name).replace('/', '__').replace('.', '_')
ModelFilename(name) == Replace(Replace(name, "/", <<"_", "_">>), ".", <<"_">>)

\* The configuration names two providers (config['models'], line 212).
ConfigureProviders ==
    /\ provider_names = <<>>
    /\ \E a, b \in ProviderNames : provider_names' = <<a, b>>
    /\ UNCHANGED <<engine, meta, report, provider_files>>

\* lines 66-69: each provider's call derives its file name from its name.
NameProviderFiles ==
    /\ provider_names # <<>>
    /\ provider_files = <<>>
    /\ provider_files' = <<ModelFilename(provider_names[1]),
                           ModelFilename(provider_names[2])>>
    /\ UNCHANGED <<engine, meta, report, provider_names>>

NextNames ==
    \/ ConfigureProviders
    \/ NameProviderFiles

SpecNames == Init /\ [][NextNames]_vars

\* ------------------------------------------------- a backend that misbehaves
\* lines 126-127: client.embed answers without raising, and the 'embedding' of
\* its response is an empty list; the code appends it as it is.
EmbedTextEmpty ==
    /\ pc = "embed"
    /\ model_type = "ollama"
    /\ Len(batch_vectors) < Len(batch_texts)
    /\ LET n == Len(batch_vectors) + 1 IN
       /\ calls' = Append(calls, [op |-> "embed", lo |-> Position(n), hi |-> Position(n)])
       /\ batch_vectors' = Append(batch_vectors, <<>>)
       /\ pbar' = pbar + 1
    /\ UNCHANGED <<config, outside, fs, pc, result, failed, streak, processed_vectors,
                   start_index, texts_to_process, i, batch_texts, runs, saves,
                   save_failed, final0, tmp0, interrupted, checkpointed>>

\* process_in_batches with a backend that may also answer with an empty vector.
NextBackend ==
    \/ Next
    \/ EmbedTextEmpty

SpecBackend == Init /\ [][NextBackend]_vars

\* ------------------------------------------------- a call that is not killed
\* One statement of a running call of process_in_batches (lines 92-168).
CallStep ==
    \/ Prepare
    \/ BatchHead
    \/ EmbedText
    \/ EncodeBatch
    \/ ExtendVectors
    \/ SaveOpen
    \/ SaveWrite
    \/ UpdateProgress
    \/ Rename

\* Calls of process_in_batches in a process that nobody kills.
NextCalls ==
    \/ StartRun
    \/ CallStep

\* The interpreter goes on to the next statement of a running call, and every
\* backend call in it comes back with an answer or an error.
SpecCalls == Init /\ [][NextCalls]_vars /\ WF_vars(CallStep)

\* ---------------------------------------------------------- save_metadata
\* lines 170-179, 182-183: the call tests for the file; it opens it for
\* writing when it is missing, and returns when it is there.
SaveMetadata ==
    /\ meta_pc = "idle"
    /\ meta_calls < MaxMetaCalls
    /\ meta_calls' = meta_calls + 1
    /\ \E df \in DataFrames : meta_df' = df
    /\ meta_found' = metadata
    /\ IF MetadataMissing(metadata)
         THEN /\ metadata' = MetaPartial
              /\ meta_pc' = "dump"
         ELSE /\ meta_pc' = "idle"
              /\ UNCHANGED metadata
    /\ UNCHANGED <<engine, naming, report, meta_writes>>

\* lines 180-181: json.dump writes the records and the file is closed.
DumpMetadata ==
    /\ meta_pc = "dump"
    /\ metadata' = MetaFileOf(meta_df)
    /\ meta_writes' = meta_writes + 1
    /\ meta_pc' = "idle"
    /\ UNCHANGED <<engine, naming, report, meta_df, meta_found, meta_calls>>

\* The process is killed, or json.dump raises, between open and close: the
\* file stays as open() left it.
MetaCrash ==
    /\ meta_pc = "dump"
    /\ meta_pc' = "idle"
    /\ UNCHANGED <<engine, naming, report, metadata, meta_df, meta_found, meta_calls, meta_writes>>

NextMeta ==
    \/ SaveMetadata
    \/ DumpMetadata
    \/ MetaCrash

SpecMeta == Init /\ [][NextMeta]_vars

\* ------------------------------------- the report (src/03_html_output)
\* A cell of the vector column: the JSON text of a list, or one of the texts
\* that stand for "no vector".
Vectors == {<<1, 0>>, <<0, 1>>}
VectorCell(v) == [kind |-> "list", list |-> v]
EmptyCell == [kind |-> "[]", list |-> <<>>]

None == <<>>

\* lines 41-51: NaN, '', 'None' and '[]' give None; so does text that is not
\* the JSON of a non-empty list.
extract_vector(value) ==
    IF value.kind \in {"nan", "", "None", "[]"}
      THEN None
      ELSE IF value.kind = "list" /\ Len(value.list) > 0 THEN value.list ELSE None

\* The rows of the CSV: the category (the middle category column) and the
\* vector column. The rows under study are those of the first category that
\* carry a vector; the others are of another category, or carry none.
MainRows == {[category |-> "a", cell |-> VectorCell(v)] : v \in Vectors}
OtherRows == {[category |-> "b", cell |-> VectorCell(<<1, 0>>)],
              [category |-> "a", cell |-> EmptyCell]}

\* A frame of n rows: the rows at the positions of O are outside the first
\* category or carry no vector.
Frame(n, O, m, o) == [r \in 1..n |-> IF r \in O THEN o[r] ELSE m[r]]
OtherPositions(n) == {S \in SUBSET (1..n) : Cardinality(S) <= MaxOther}

\* lines 83-93: per category, the rows with a vector, in the order of the frame.
GroupItems(frame, cat) ==
    LET rows == SelectSeq([r \in 1..Len(frame) |-> r],
                          LAMBDA r : /\ frame[r].category = cat
                                     /\ extract_vector(frame[r].cell) # None)
    IN [n \in 1..Len(rows) |->
           [index |-> rows[n], vector |-> extract_vector(frame[rows[n]].cell)]]

\* defaultdict(list): a category is a key once a row with a vector was appended.
Grouped(frame) ==
    [cat \in {c \in Categories : GroupItems(frame, c) # <<>>} |-> GroupItems(frame, cat)]

\* sklearn's cosine_similarity of two vectors (lines 103-104); the vectors of
\* the model lie on the axes, so their norms are whole numbers.
Dot(u, v) == u[1] * v[1] + u[2] * v[2]
Norm(u) == CHOOSE n \in 0..2 : n * n = Dot(u, u)
cosine_similarity(u, v) == Dot(u, v) \div (Norm(u) * Norm(v))

\* A faulty score list that keeps the problem itself among the candidates.
SimScoresWithSelf(items, n) ==
    [j \in 1..Len(items) |->
        [j |-> j, score |-> cosine_similarity(items[n].vector, items[j].vector)]]

\* line 110: (j, similarities[i][j]) for every j other than i, in the order of j.
SimScores(items, n) ==
    LET others == SelectSeq([j \in 1..Len(items) |-> j], LAMBDA j : j # n)
    IN [k \in 1..Len(others) |->
           [j |-> others[k],
            score |-> cosine_similarity(items[n].vector, items[others[k]].vector)]]

\* line 111: list.sort(key=score, reverse=True), a stable sort: entries of
\* equal score keep their order.
InsertByScore(sorted, x) ==
    LET k == Cardinality({n \in 1..Len(sorted) : sorted[n].score >= x.score})
    IN SubSeq(sorted, 1, k) \o <<x>> \o SubSeq(sorted, k + 1, Len(sorted))

RECURSIVE SortByScore(_)
SortByScore(seq) ==
    IF seq = <<>>
      THEN <<>>
      ELSE InsertByScore(SortByScore(SubSeq(seq, 1, Len(seq) - 1)), seq[Len(seq)])

\* lines 113-118: the similar problems of items[n], best first.
SimilarList(items, n) ==
    LET sim_scores == SortByScore(SimScores(items, n))
    IN [k \in 1..Len(sim_scores) |->
           [data |-> items[sim_scores[k].j].index, similarity |-> sim_scores[k].score]]

\* lines 98-124: categories of fewer than two items are left out.
CategorySimilarities(g) ==
    [cat \in {c \in DOMAIN g : Len(g[c]) >= 2} |->
        [n \in 1..Len(g[cat]) |->
            [main_problem |-> g[cat][n].index,
             similar_problems |-> SimilarList(g[cat], n)]]]

\* line 407: item['similar_problems'][:5]
PageLimit == 5
Shown(similar) == SubSeq(similar, 1, Min(PageLimit, Len(similar)))

\* lines 26-35 and 463: the vectorized CSV is read. The report generator is a
\* program of its own that reads nothing but this file, so it is run beside
\* one configuration of the vectorizer and not once beside each.
LoadCsv ==
    /\ html_pc = "none"
    /\ texts = <<>> /\ model_type = "ollama" /\ batch_size = 1
    /\ fs[tmp_path] = Absent
    /\ \E n \in 0..MaxProblems : \E O \in OtherPositions(n) :
         \E m \in [(1..n) \ O -> MainRows], o \in [O -> OtherRows] :
            report_df' = Frame(n, O, m, o)
    /\ html_pc' = "loaded"
    /\ UNCHANGED <<engine, meta, naming, grouped, category_similarities, pages>>

\* lines 78-126, called at line 495.
GroupByMiddleCategory ==
    /\ html_pc = "loaded"
    /\ grouped' = Grouped(report_df)
    /\ category_similarities' = CategorySimilarities(grouped')
    /\ html_pc' = "grouped"
    /\ UNCHANGED <<engine, meta, naming, report_df, pages>>

\* lines 505-506 with 393-419: one page per category of category_similarities.
GenerateCategoryPages ==
    /\ html_pc = "grouped"
    /\ pages' = [cat \in DOMAIN category_similarities |->
                   [n \in 1..Len(category_similarities[cat]) |->
                       [main |-> category_similarities[cat][n].main_problem,
                        similar |-> Shown(category_similarities[cat][n].similar_problems)]]]
    /\ html_pc' = "done"
    /\ UNCHANGED <<engine, meta, naming, report_df, grouped, category_similarities>>

NextReport ==
    \/ LoadCsv
    \/ GroupByMiddleCategory
    \/ GenerateCategoryPages

SpecReport == Init /\ [][NextReport]_vars

\* ------------------------------------------------------------- vocabulary
IsPrefix(a, b) == Len(a) <= Len(b) /\ a = SubSeq(b, 1, Len(a))

KnownType == model_type \in {"ollama", "sentence-transformers"}

\* The checkpoint of the provider: what a call starting now would resume from.
Checkpoint == ResumeVectors(fs)

\* The files that hold checkpoint data: the one the resume step reads and the
\* one the save step writes.
CheckpointFiles == {tmp_path, NpSaveFile(tmp_path)}

\* Corpus positions covered by the embed calls of the current call.
EmbeddedPositions ==
    UNION {c.lo .. c.hi : c \in {calls[n] : n \in {m \in 1..Len(calls) :
                                        calls[m].op \in {"embed", "encode"}}}}

\* No backend call of the current call failed, no np.save raised, and
\* os.rename raised nothing but (possibly) FileNotFoundError.
NoFault == failed \notin {"load", "warmup", "embed", "rename"} /\ ~save_failed

\* The state right after the entry of a call (lines 54-90).
JustResumed == pc = "prepare" \/ (pc = "rename" /\ texts_to_process = <<>>)

\* ------------------------------------------------------------------ claims

\* C1: a call that follows a crash inside the embedding loop, and whose own
\* backend calls succeed, ends with a final artifact holding, at every index
\* of the corpus, the vector an uninterrupted run produces there.
C1_ResumeEqualsUninterrupted ==
    (pc = "done" /\ interrupted /\ KnownType /\ NoFault)
        => (fs[final_path].readable /\ fs[final_path].data = EmbedAll(texts))

\* C2: every readable file holding checkpoint data holds k <= N vectors, the
\* j-th being the embedding of text j: a prefix of the corpus' vectors with no
\* gap and no reordering.
C2_CheckpointIsCorpusPrefix ==
    \A p \in CheckpointFiles :
        fs[p].readable => IsPrefix(fs[p].data, EmbedAll(texts))

C2_Witness ==
    /\ fs[NpSaveFile(tmp_path)].readable
    /\ Len(fs[NpSaveFile(tmp_path)].data) > start_index
    /\ Len(fs[NpSaveFile(tmp_path)].data) < Len(texts)
    /\ i >= 1
    /\ pc = "embed"

\* C3: whenever a call has returned and the final artifact exists, it holds
\* exactly the N vectors of the corpus, in corpus order.
C3_FinalHoldsWholeCorpus ==
    (pc = "done" /\ KnownType /\ NoFault /\ fs[final_path].readable)
        => fs[final_path].data = EmbedAll(texts)

\* C4: when a call returns because the embed call of batch i failed, the
\* checkpoint holds exactly the resumed prefix plus the i batches completed
\* before it.
C4_CheckpointAfterFailedBatch ==
    (pc = "done" /\ failed = "embed" /\ ~save_failed)
        => Len(Checkpoint) = start_index + i * batch_size

\* C5: at the start of every batch the checkpoint holds as many vectors as
\* the call holds in memory.
C5_CheckpointedBeforeNextBatch ==
    (pc = "batch" /\ i < NumBatches(Len(texts_to_process), batch_size)
        /\ ~save_failed)
        => Len(Checkpoint) = Len(processed_vectors)

\* C6: the call that follows a crash inside the embedding phase resumes at
\* exactly the length the interrupted call had checkpointed.
C6_ResumeAtCheckpointedLength ==
    (JustResumed /\ interrupted) => start_index = checkpointed

\* C7: a call that starts from a partial checkpoint of 1 <= k < N vectors and
\* meets no failure embeds exactly the texts [k, N) and leaves a final
\* artifact of N vectors whose first k are the checkpoint's.
C7_ResumeFromPartial ==
    (pc = "done" /\ KnownType /\ NoFault /\ failed = "none"
        /\ tmp0.readable /\ Len(tmp0.data) >= 1 /\ Len(tmp0.data) < Len(texts))
        => /\ EmbeddedPositions = (Len(tmp0.data) + 1) .. Len(texts)
           /\ Len(fs[final_path].data) = Len(texts)
           /\ IsPrefix(tmp0.data, fs[final_path].data)

\* C8: for a non-empty corpus with texts left to embed and a provider of
\* either kind whose backend calls all succeed, the call returns success,
\* having written the checkpoint at least once, and the final artifact exists.
C8_SuccessWhenBackendSucceeds ==
    (pc = "done" /\ KnownType /\ NoFault /\ texts_to_process # <<>>)
        => (result = "true" /\ saves >= 1 /\ fs[final_path].exists)

\* C9 (as claimed): for an empty corpus and no partial artifact the call makes
\* no backend call, reports success, and a zero-length final artifact exists.
C9_EmptyCorpusLeavesFinal ==
    (pc = "done" /\ texts = <<>> /\ ~tmp0.exists)
        => /\ calls = <<>>
           /\ result = "true"
           /\ fs[final_path].readable /\ fs[final_path].data = <<>>

\* C9 (amended): for an empty corpus and no partial artifact the call makes no
\* backend call and reports success, and it creates no file: every file of the
\* directory is as it was before the call.
C9_EmptyCorpusSucceedsWithoutFile ==
    (pc = "done" /\ texts = <<>> /\ ~tmp0.exists)
        => /\ calls = <<>>
           /\ result = "true"
           /\ fs[final_path] = final0
           /\ fs[tmp_path] = tmp0

C9_Witness ==
    pc = "done" /\ texts = <<>> /\ ~tmp0.exists /\ ~fs[final_path].exists
        /\ result = "true"

Finalized == pc = "done" /\ failed \notin {"load", "warmup", "embed"}

\* C11: after the finalize step either the final artifact exists and the
\* partial artifact is gone, or the step failed and both artifacts are as the
\* call found them; and the file under the final name is never a partly
\* written one: it is the file the call found there or the whole partial file.
C11_FinalizeAllOrNothing ==
    /\ fs[final_path] \in {final0, tmp0}
    /\ Finalized =>
          \/ (fs[final_path].exists /\ ~fs[tmp_path].exists)
          \/ (result = "false" /\ fs[tmp_path] = tmp0 /\ fs[final_path] = final0)

\* C11, amended: as above, with the third outcome the code has: for an empty
\* corpus with neither artifact on disk the step reports success and leaves
\* the directory as it is.
C11_FinalizeAtomic ==
    /\ fs[final_path] \in {final0, tmp0}
    /\ Finalized =>
          \/ (result = "true" /\ fs[final_path].exists /\ ~fs[tmp_path].exists)
          \/ (result = "false" /\ fs[tmp_path] = tmp0 /\ fs[final_path] = final0)
          \/ (result = "true" /\ texts = <<>> /\ ~tmp0.exists /\ ~final0.exists
                /\ fs[tmp_path] = tmp0 /\ fs[final_path] = final0)

C11_Witness ==
    /\ Finalized
    /\ failed = "rename"
    /\ tmp0.readable
    /\ Len(tmp0.data) >= 1
    /\ fs[tmp_path] = tmp0

\* C12: a call that finds an unreadable partial artifact, and whose backend
\* calls and saves all succeed, does not fail: it starts at text 0, embeds
\* every text of the corpus, and ends with a final artifact of exactly the N
\* vectors of the corpus.
C12_UnreadableCheckpointRestarts ==
    (pc = "done" /\ tmp0 = Corrupt /\ Len(texts) >= 1 /\ KnownType /\ NoFault)
        => /\ result = "true"
           /\ start_index = 0
           /\ EmbeddedPositions = 1..Len(texts)
           /\ fs[final_path].readable
           /\ fs[final_path].data = EmbedAll(texts)

\* A step in which main() runs from its start to its end.
MainRuns == main_pc = "none" /\ main_pc' # "none"

C14_ForceRebuildsFinal ==
    [][(MainRuns /\ fs[final_path].readable /\ Len(texts) >= 1 /\ main_force')
          => /\ main_pc' = "returned"
             /\ ~fs'[tmp_path].exists
             /\ fs'[final_path].readable
             /\ fs'[final_path].data = EmbedAll(texts)]_vars

\* C15: the failure of a provider in any phase (preparation, embedding,
\* finalization) never ends the run over the providers: the provider's call
\* hands a result back to the loop of main() (lines 246-260), which has no
\* handler of its own, so that the loop goes on to the next provider.
C15_FailureStaysInsideProvider ==
    failed # "none" => result \in {"true", "false"}

\* C16: a call whose backend preparation fails (the warm-up call of the remote
\* model, or the loading of the local model) returns a failure result, has
\* issued no embed call, and leaves the partial and the final artifact as the
\* call found them.
C16_PreparationFailureReturnsFailure ==
    (pc = "done" /\ failed \in {"load", "warmup"})
        => /\ result = "false"
           /\ EmbeddedPositions = {}
           /\ fs[tmp_path] = tmp0
           /\ fs[final_path] = final0

\* The phases of a call in their order: embedding (backend preparation and
\* the batch loop), finalizing, ended. Resuming is the entry step itself.
PhaseRank ==
    CASE pc = "idle" -> 0
      [] pc = "prepare" \/ pc \in LoopPositions -> 1
      [] pc = "rename" -> 2
      [] OTHER -> 3

\* A step taken inside one call: no new call begins and the process is not killed.
SameCall == runs' = runs /\ pc # "idle" /\ pc' # "idle"

\* C17: a call moves only forward through its phases; it reports success only
\* by its finalize step; and once an embed call has failed the call has ended
\* with a failure: it enters neither the finalize step nor a successful end.
C17_PhasesOnlyForward ==
    [][/\ SameCall => PhaseRank' >= PhaseRank
       /\ (SameCall /\ result' = "true") => (pc = "rename" \/ result = "true")
       /\ failed' = "embed" => (pc' = "done" /\ result' = "false")
       /\ (SameCall /\ failed = "embed") => (pc' = "done" /\ result' = "false")]_vars

C17_Witness ==
    /\ pc = "done"
    /\ result = "true"
    /\ saves >= 1
    /\ Len(calls) >= 2
    /\ start_index = 0

\* The indices of the embed calls among the backend calls of the current call.
EmbedCalls == {n \in 1..Len(calls) : calls[n].op \in {"embed", "encode"}}

\* C18: no text is handed to the backend twice in one call (no retry), and a
\* failed embed call is the last backend call of its call: the call has ended
\* with a failure, the vectors it holds are those of the batches before the
\* failing one, and the failing batch was neither appended nor skipped.
C18_FailedBatchEndsTheCall ==
    /\ \A m, n \in EmbedCalls : m < n => calls[m].hi < calls[n].lo
    /\ failed = "embed" =>
          /\ pc = "done"
          /\ result = "false"
          /\ Len(calls) \in EmbedCalls
          /\ Len(processed_vectors) = start_index + i * batch_size
          /\ calls[Len(calls)].lo > Len(processed_vectors)
          /\ calls[Len(calls)].lo <= Len(processed_vectors) + batch_size

C18_Witness ==
    /\ failed = "embed"
    /\ i >= 1
    /\ Len(calls) >= 3
    /\ Len(processed_vectors) < Len(texts)

\* C19: a call that finds a readable partial artifact holding as many vectors
\* as the corpus has texts goes from its entry straight to the finalize step:
\* it prepares no backend and makes no embed call, and, unless os.rename
\* itself raises, it returns success with the partial artifact moved, as it
\* was, to the final name.
C19_FullCheckpointGoesToFinalize ==
    (pc # "idle" /\ tmp0.readable /\ Len(tmp0.data) = Len(texts))
        => /\ pc \in {"rename", "done"}
           /\ calls = <<>>
           /\ (pc = "done" /\ failed # "rename")
                 => /\ result = "true"
                    /\ fs[final_path] = tmp0
                    /\ ~fs[tmp_path].exists

C19_Witness ==
    /\ pc = "done"
    /\ tmp0.readable
    /\ Len(texts) >= 2
    /\ Len(tmp0.data) = Len(texts)
    /\ result = "true"
    /\ fs[final_path] = tmp0

\* C20: metadata.json is written at most once: a call of save_metadata that
\* finds the file leaves its content as it is, whatever data frame the call
\* is given and however many calls are made.
C20_MetadataWrittenOnce ==
    /\ meta_writes <= 1
    /\ meta_found.exists => (metadata = meta_found /\ meta_pc = "idle")

C20_Witness ==
    /\ meta_calls >= 2
    /\ meta_pc = "idle"
    /\ meta_found.complete
    /\ metadata = meta_found
    /\ metadata.records # MetadataRecords(meta_df)

\* The finalize step of the current call found no partial artifact to rename
\* (os.rename raised FileNotFoundError, lines 155-165).
RenameFoundNothing == Finalized /\ ~tmp0.exists

\* C21: when the finalizing rename fails because the partial artifact is
\* missing, the call reports success if the final artifact exists afterwards
\* and a failure if it does not.
C21_MissingPartialResultFollowsFinal ==
    RenameFoundNothing => (result = "true" <=> fs[final_path].exists)

\* C21, amended: as above, except that for an empty corpus the call reports
\* success although no final artifact exists; in every case the handler
\* leaves the directory as it was.
C21_MissingPartialResult ==
    RenameFoundNothing =>
        /\ result \in {"true", "false"}
        /\ result = "true" <=> (fs[final_path].exists \/ texts = <<>>)
        /\ fs[final_path] = final0
        /\ fs[tmp_path] = tmp0

C21_Witness ==
    /\ RenameFoundNothing
    /\ result = "false"
    /\ failed = "missing"
    /\ saves >= 1
    /\ ~fs[final_path].exists

\* C22: a backend answer holding an empty vector counts as a failed embed
\* call, so that no empty vector is ever among the vectors the call holds or
\* in a checkpoint or final artifact.
C22_NoEmptyVectorStored ==
    /\ \A j \in 1..Len(processed_vectors) : processed_vectors[j] # <<>>
    /\ \A p \in Paths : fs[p].readable =>
          \A j \in 1..Len(fs[p].data) : fs[p].data[j] # <<>>

\* The lines of console output that name the exception e.
MentionsError(lines, e) == \E n \in 1..Len(lines) : lines[n] = ErrorLine(e)

\* C23: when main() has failed with an exception under the script, the
\* console output captured so far, the error line included, has been handed
\* to clip.exe by exactly one subprocess.run call, and the exception of
\* main() is raised on to the caller.
C23_ClipboardGetsErrorOutput ==
    script_pc = "raised" =>
        /\ main_pc = "raised"
        /\ Len(clipboard) = 1
        /\ MentionsError(clipboard[1], MainError)

\* C24: whenever a call (of a known provider type, with no fault and no
\* unreadable partial file to begin with) has returned success, no file
\* holding the provider's partial state is left in the output directory.
C24_NoPartialAfterSuccess ==
    (pc = "done" /\ result = "true" /\ KnownType /\ NoFault /\ tmp0 # Corrupt)
        => \A p \in CheckpointFiles : ~fs[p].exists

\* C25: the checkpoint a completed save has written is the file at the path
\* the resume step tests and loads and the finalize step renames: right after
\* a save that did not raise, the file at tmp_path holds the vectors handed
\* to np.save, and the save has created no file under any other name.
C25_SavedWhereLoaded ==
    (pc = "update" /\ ~save_failed /\ KnownType)
        => /\ NpSaveFile(tmp_path) = tmp_path
           /\ fs[tmp_path].readable
           /\ fs[tmp_path].data = processed_vectors

\* The first j batches of the loop, one after the other.
RECURSIVE FirstBatches(_, _, _)
FirstBatches(ts, b, j) ==
    IF j = 0 THEN <<>>
    ELSE FirstBatches(ts, b, j - 1) \o BatchSlice(ts, j - 1, b)

\* C26: for the remaining texts [k, N) and batch size B the loop forms
\* exactly ceil((N-k)/B) batches, takes them in increasing order, each of B
\* texts except possibly the last, and one after the other they are the
\* remaining texts: every index of [k, N) is in exactly one batch.
C26_BatchesPartitionRemaining ==
    LET n == Len(texts_to_process)
        nb == NumBatches(n, batch_size)
    IN  /\ nb * batch_size >= n
        /\ (nb - 1) * batch_size < n
        /\ \A j \in 0..(nb - 1) :
              /\ Len(BatchSlice(texts_to_process, j, batch_size)) <= batch_size
              /\ j < nb - 1 => Len(BatchSlice(texts_to_process, j, batch_size)) = batch_size
              /\ Len(BatchSlice(texts_to_process, j, batch_size)) >= 1
        /\ FirstBatches(texts_to_process, batch_size, nb) = texts_to_process
        /\ pc \in LoopPositions => i <= nb
        /\ pc \in LoopPositions \ {"batch"} =>
              /\ i < nb
              /\ batch_texts = BatchSlice(texts_to_process, i, batch_size)
              /\ batch_texts = SubSeq(texts, Position(1), Position(Len(batch_texts)))
        /\ (pc = "rename" /\ texts_to_process # <<>>) => i = nb

C26_Witness ==
    /\ pc = "rename"
    /\ batch_size = 2
    /\ Len(texts_to_process) = 3
    /\ i = 2
    /\ Len(batch_texts) = 1
    /\ KnownType
    /\ processed_vectors = EmbedAll(texts)

\* C27: in a call for a remote (ollama) provider with texts left to embed,
\* the first backend call is the one warm-up call and every later call embeds
\* one text: the n-th of them the n-th remaining text, so that the texts are
\* embedded one by one in corpus order; a loop that is not cut short has made
\* one embed call per remaining text; and when a per-text call fails, the
\* vectors already obtained in that batch are in no vector list the call
\* keeps or saves.
C27_WarmupThenOneCallPerText ==
    model_type = "ollama" =>
        /\ pc \in LoopPositions => calls # <<>>
        /\ \A n \in 1..Len(calls) :
              IF n = 1 THEN calls[n].op = "warmup"
              ELSE /\ calls[n].op = "embed"
                   /\ calls[n].lo = start_index + n - 1
                   /\ calls[n].hi = calls[n].lo
        /\ (pc = "rename" /\ texts_to_process # <<>>)
              => Len(calls) = 1 + Len(texts_to_process)
        /\ pc \in {"embed"} => Len(calls) = 1 + i * batch_size + Len(batch_vectors)
        /\ failed = "embed" =>
              /\ Len(calls) = 2 + i * batch_size + Len(batch_vectors)
              /\ Len(processed_vectors) = start_index + i * batch_size
              /\ (saves >= 1 /\ ~save_failed)
                    => fs[NpSaveFile(tmp_path)].data = processed_vectors

C27_Witness ==
    /\ model_type = "ollama"
    /\ failed = "embed"
    /\ Len(batch_vectors) >= 1
    /\ start_index >= 1
    /\ Len(calls) = 3

\* C28: for a remote provider the progress counter is the number of texts
\* embedded so far in the call, for a local provider the number of texts in
\* the batches completed so far; it never exceeds the number of remaining
\* texts N-k; it is below N-k once an embed call has failed, and it is N-k
\* when the loop has run to its end.
C28_ProgressCountsEmbeddedTexts ==
    LET n == Len(texts_to_process) IN
    KnownType =>
        /\ pbar <= n
        /\ model_type = "ollama" =>
              pbar = Cardinality(EmbedCalls) - (IF failed = "embed" THEN 1 ELSE 0)
        /\ model_type = "sentence-transformers" =>
              /\ pc \in {"batch", "rename", "done"} => pbar = Len(processed_vectors) - start_index
              /\ pc \in {"embed", "save", "saving", "update"} => pbar = i * batch_size
        /\ failed = "embed" => pbar < n
        /\ (pc = "rename" \/ Finalized) => pbar = n

C28_Witness ==
    /\ model_type = "sentence-transformers"
    /\ pc = "rename"
    /\ batch_size = 2
    /\ i = 2
    /\ pbar = 3

\* C29: two distinct provider names never get the same file name, so that
\* their final and partial artifacts are different files.
C29_DistinctNamesDistinctFiles ==
    (provider_files # <<>> /\ provider_names[1] # provider_names[2])
        => provider_files[1] # provider_files[2]

\* C30: a call for a provider whose type is neither 'ollama' nor
\* 'sentence-transformers', given a non-empty corpus with texts left to
\* embed (no save raising, no unreadable partial file), does not report
\* success and does not create a final artifact.
C30_UnknownTypeNeverSucceeds ==
    (pc = "done" /\ ~KnownType /\ texts_to_process # <<>> /\ ~save_failed
        /\ tmp0 # Corrupt)
        => /\ result # "true"
           /\ fs[final_path] = final0

\* C31: a call of process_in_batches that returns failure leaves the final
\* artifact path as it was when the call began: a failed call neither creates,
\* replaces nor removes the final artifact.
C31_FailedCallKeepsFinal ==
    (pc = "done" /\ result = "false") => fs[final_path] = final0

\* A call that found a final artifact in place, embedded and checkpointed a
\* batch, and failed in the next one: the final artifact is as it was.
C31_Witness ==
    /\ pc = "done"
    /\ result = "false"
    /\ failed = "embed"
    /\ saves >= 1
    /\ final0.readable
    /\ fs[final_path] = final0

\* A call of process_in_batches is running.
Running == pc \notin {"idle", "done"}

\* C32: when every backend call returns or fails, a running call of
\* process_in_batches ends with a success or a failure result, after at most
\* N-k embed steps (N-k = the texts the call found left to embed).
C32_EndsWithResultInBoundedSteps ==
    Running ~> /\ pc = "done"
               /\ result \in {"true", "false"}
               /\ Cardinality(EmbedCalls) <= Len(texts_to_process)

\* The rows of the frame that lie in a category and carry a valid vector.
ValidRows(cat) ==
    {r \in 1..Len(report_df) : /\ report_df[r].category = cat
                               /\ extract_vector(report_df[r].cell) # None}

\* The similarity of the problems of two rows of the frame.
RowSimilarity(r, q) ==
    cosine_similarity(extract_vector(report_df[r].cell), extract_vector(report_df[q].cell))

\* C33: in the result of group_by_middle_category every problem with a valid
\* vector, in a category of at least two such problems, has a similar-problem
\* list that holds every other valid problem of its category exactly once,
\* not the problem itself and no problem of another category, in the order of
\* non-increasing similarity; the category page lists the first 5 of them at
\* most.
C33_SimilarListsPerCategory ==
    html_pc \in {"grouped", "done"} =>
        \A cat \in Categories :
            Cardinality(ValidRows(cat)) >= 2 =>
                /\ cat \in DOMAIN category_similarities
                /\ \A r \in ValidRows(cat) :
                     \E n \in 1..Len(category_similarities[cat]) :
                        LET similar == category_similarities[cat][n].similar_problems IN
                        /\ category_similarities[cat][n].main_problem = r
                        /\ Len(similar) = Cardinality(ValidRows(cat)) - 1
                        /\ {similar[k].data : k \in 1..Len(similar)} = ValidRows(cat) \ {r}
                        /\ \A k \in 1..Len(similar) :
                             similar[k].similarity = RowSimilarity(r, similar[k].data)
                        /\ \A k \in 1..(Len(similar) - 1) :
                             similar[k].similarity >= similar[k + 1].similarity
                        /\ html_pc = "done" =>
                             /\ pages[cat][n].main = r
                             /\ Len(pages[cat][n].similar) <= 5
                             /\ IsPrefix(pages[cat][n].similar, similar)
                             /\ Len(pages[cat][n].similar) = Min(5, Len(similar))

\* The pages are written for a frame that holds a problem of another category
\* and seven problems of the first one, one of which has a list that the sort
\* put into another order than the frame's and that the page cuts to 5.
C33_Witness ==
    /\ html_pc = "done"
    /\ \E r \in 1..Len(report_df) : report_df[r].category = "b"
    /\ Cardinality(ValidRows("a")) = 7
    /\ \E n \in 1..Len(category_similarities["a"]) :
         LET similar == category_similarities["a"][n].similar_problems IN
         /\ Len(similar) = 6
         /\ \E k \in 1..5 : similar[k].data > similar[k + 1].data
         /\ similar[1].similarity > similar[6].similarity
         /\ Len(pages["a"][n].similar) = 5

====
